---- MODULE Spec2Model ----
(***************************************************************************)
(* Model of pcdsdevices/ladm.py, the LADM two-rail mechanism controller,   *)
(* and of the energy pseudo-positioner of pcdsdevices/dccm.py.             *)
(*                                                                         *)
(* Numbers.  The source computes in IEEE doubles; the model computes in    *)
(* fixed point so that every conversion is really carried out:             *)
(*   angles   in millidegrees (mdeg),                                       *)
(*   lengths  in micrometres (um; the source's unit is mm),                 *)
(*   sines, cosines and tangents scaled by S = 10^7.                        *)
(* np.nan and None are reserved values outside the numeric range.          *)
(***************************************************************************)
EXTENDS Integers, Sequences, FiniteSets, TLC

S == 10000000

NaN == 2147483647

None == 2147483646

Abs(x) == IF x < 0 THEN -x ELSE x

Sgn(x) == IF x < 0 THEN -1 ELSE 1

(* floor(a*b/c) and (a*b) mod c for 0 <= a < c, b >= 0, c < 6*10^7, without *)
(* ever forming a*b: long multiplication over the base-16 digits of b.      *)
RECURSIVE MulDivQR(_, _, _)
MulDivQR(a, b, c) ==
    IF b = 0 THEN <<0, 0>>
    ELSE LET h == MulDivQR(a, b \div 16, c)
             t == 16 * h[2] + (b % 16) * a
         IN  <<16 * h[1] + t \div c, t % c>>

(* a*b/c on non-negative operands, rounded to nearest *)
MulDivU(a, b, c) ==
    LET qr == MulDivQR(a % c, b, c)
    IN  (a \div c) * b + qr[1] + (IF 2 * qr[2] >= c THEN 1 ELSE 0)

(* the double product/quotient a*b/c, sign and magnitude *)
MulDiv(a, b, c) == Sgn(a) * Sgn(b) * Sgn(c) * MulDivU(Abs(a), Abs(b), Abs(c))

(* a/b of two doubles, on integers: rounded to nearest; 0/0 is nan *)
FDiv(a, b) ==
    IF a = 0 /\ b = 0 THEN NaN
    ELSE Sgn(a) * Sgn(b) * ((2 * Abs(a) + Abs(b)) \div (2 * Abs(b)))

(* theta * np.pi/180: mdeg -> radians scaled by S *)
Rad(t) == MulDiv(174532925, t, 1000000)

(* the Taylor series of sin in Horner form,                                *)
(*   sin x = x (1 - x^2/6 (1 - x^2/20 (1 - x^2/42 (1 - x^2/72 (...))))),   *)
(* on x^2 scaled by S                                                      *)
SinDivisors == <<6, 20, 42, 72, 110, 156>>

RECURSIVE Horner(_, _)
Horner(x2, k) ==
    IF k > Len(SinDivisors) THEN S
    ELSE S - MulDiv(x2, Horner(x2, k + 1), S) \div SinDivisors[k]

(* sin of x radians (scaled by S), |x| <= pi/2 *)
SinSeries(x) == MulDiv(x, Horner(MulDiv(x, x, S), 1), S)

(* np.sin of an angle given in mdeg, scaled by S *)
Sin(t) ==
    LET m == ((t % 360000) + 360000) % 360000
        q == IF m <= 90000 THEN m
             ELSE IF m <= 270000 THEN 180000 - m
             ELSE m - 360000
    IN  SinSeries(Rad(q))

(* np.cos of an angle given in mdeg, scaled by S *)
Cos(t) == Sin(t + 90000)

(* np.tan of an angle given in mdeg, scaled by S *)
Tan(t) == MulDiv(Sin(t), S, Cos(t))

(* arctan(2^-i) in microdegrees, i = 0..25 *)
AtanTable ==
    <<45000000, 26565051, 14036243, 7125016, 3576334, 1789911, 895174,
      447614, 223811, 111906, 55953, 27976, 13988, 6994, 3497, 1749, 874,
      437, 219, 109, 55, 27, 14, 7, 3, 2>>

(* CORDIC vectoring: rotate (x, y), x > 0, onto the x axis; z is the angle *)
RECURSIVE Cordic(_, _, _, _)
Cordic(x, y, z, i) ==
    IF i > 25 \/ y = 0 THEN z
    ELSE LET p  == 2 ^ i
             dx == IF y >= 0 THEN (y + p \div 2) \div p
                   ELSE -((-y + p \div 2) \div p)
             dy == (x + p \div 2) \div p
         IN  IF y > 0 THEN Cordic(x + dx, y - dy, z + AtanTable[i + 1], i + 1)
             ELSE Cordic(x - dx, y + dy, z - AtanTable[i + 1], i + 1)

(* np.arctan(num/den) * 180/np.pi in mdeg; num/0 is +-inf, 0/0 is nan *)
ArcTanDeg(num, den) ==
    IF num = 0 /\ den = 0 THEN NaN
    ELSE IF den = 0 THEN Sgn(num) * 90000
    ELSE LET n  == IF den < 0 THEN -num ELSE num
             d  == Abs(den)
             mx == IF Abs(n) > d THEN Abs(n) ELSE d
             k  == 268435456 \div mx
             xs == IF k >= 1 THEN d * k ELSE d \div (mx \div 268435456 + 1)
             ys == IF k >= 1 THEN n * k ELSE n \div (mx \div 268435456 + 1)
             z  == Cordic(xs, ys, 0, 0)
         IN  Sgn(z) * ((Abs(z) + 500) \div 1000)

(***************************************************************************)
(* Module constants and conversion functions (ladm.py lines 16-111).       *)
(***************************************************************************)
alpha_r == 63000

r == 2960000

R == 6735000

alpha_cos == Cos(27000)

sin_alpha_r == Sin(alpha_r)

tan_alpha_r == Tan(alpha_r)

sin_2alpha_r == Sin(2 * alpha_r)

(* variant: the test of line 32 never succeeds (dz is not forced) *)
ThetaIsZero_never(theta) == FALSE

(* theta == 0, the test that forces dz to 0 *)
ThetaIsZero(theta) == theta = 0

ThetaToMotors(theta, samz_offset) ==
    LET sinT == Sin(theta)
        den  == MulDiv(sin_alpha_r, Sin(alpha_r + theta), S)
        x1   == MulDiv(r, sinT, den)
        x2   == MulDiv(R, sinT, den)
        dz0  == IF sinT = 0 THEN NaN
                ELSE MulDiv(r, S, sin_alpha_r) - MulDiv(x1, sin_alpha_r, sinT)
        dz   == IF ThetaIsZero(theta) THEN 0 ELSE dz0
    IN  <<x1, x2, dz>>

(* variant: the sin(2*alpha_r) term of line 73 not halved *)
x1ToTheta_nohalf(x1, samz_offset) ==
    ArcTanDeg(MulDiv(MulDiv(x1, sin_alpha_r, S), sin_alpha_r, S),
              r - MulDiv(samz_offset, alpha_cos, S)
                - MulDiv(x1, sin_2alpha_r, S))

x1ToTheta(x1, samz_offset) ==
    ArcTanDeg(MulDiv(MulDiv(x1, sin_alpha_r, S), sin_alpha_r, S),
              r - MulDiv(samz_offset, alpha_cos, S)
                - FDiv(MulDiv(x1, sin_2alpha_r, S), 2))

x2ToTheta(x2, samz_offset) ==
    ArcTanDeg(MulDiv(MulDiv(x2, sin_alpha_r, S), sin_alpha_r, S),
              R - MulDiv(samz_offset, alpha_cos, S)
                - FDiv(MulDiv(x2, sin_2alpha_r, S), 2))

xTox12(x) == MulDiv(x, S, sin_alpha_r)

xToz(x) == MulDiv(x, S, tan_alpha_r)

MotorsTox(x1, x2, z) ==
    <<MulDiv(x1, sin_alpha_r, S), MulDiv(x2, sin_alpha_r, S),
      MulDiv(z, tan_alpha_r, S)>>

(***************************************************************************)
(* Bounds and input sets of the model.                                     *)
(***************************************************************************)
MaxOps == 1

MaxInterrupts == 1

Axes == {"x1", "x2", "y1", "y2", "z"}

(* hardware states at construction: rail positions, z, in um *)
InitPositions ==
    { <<0, 0, 0>>,                      \* theta = 0, rails and z consistent
      <<0, 1400, 1000>>,                \* rails agree within 0.01 deg; z off
                                        \*   by exactly 2 deadbands
      <<0, 1515, 0>>,                   \* rails disagree by exactly 0.01 deg;
                                        \*   x projections differ by exactly
                                        \*   the two deadbands
      <<1508195, 3431654, 362087>> }    \* theta = 27 deg

(* the .RDBD fields of the axes, in um *)
InitDeadbands == [x1 |-> 850, x2 |-> 500, y1 |-> 500, y2 |-> 500, z |-> 500]

Thetas == {0, 28000, 60000}

SamzOffsets == {0}

WmOffsets == {-100000, 0, 100000}

Xs == {-150000, 50000, 100000, 150000}

DXs == {-50000, 150000}

DYs == {1000}

LowLimits == {-100000}

HiLimits == {100000}

(***************************************************************************)
(* State.                                                                  *)
(***************************************************************************)
VARIABLES
    pos,        \* pos[a]: position of axis a (a.wm())
    tgt,        \* tgt[a]: setpoint of the last move of axis a
    moving,     \* moving[a]: axis a has a move in flight
    rdbd,       \* rdbd[a]: the axis's configured deadband
    lowlimX,    \* self.__lowlimX
    hilimX,     \* self.__hilimX
    theta_pv,   \* last value put to theta_pv
    pc,         \* next statement of the running operation (source line)
    f,          \* arguments and locals of the running operation
    calls,      \* axis calls made by the current operation, in order
    raised,     \* exception that left the last operation, or "none"
    result,     \* return value of the last operation
    nops,       \* number of operations started
    nint        \* number of KeyboardInterrupts delivered

vars == <<pos, tgt, moving, rdbd, lowlimX, hilimX, theta_pv, pc, f, calls,
          raised, result, nops, nint>>

hw == <<pos, tgt, moving>>

NoResult == [kind |-> "none", val |-> <<>>]

Frame(op, arg, off) ==
    [op |-> op, arg |-> arg, off |-> off, low |-> lowlimX, hi |-> hilimX,
     theta_now |-> 0, tm_theta |-> 0, ret |-> "idle",
     x1_var |-> 0, x2_var |-> 0, z_var |-> 0, z_now |-> 0,
     base |-> 0, subs |-> <<>>, nint |-> 0, exc |-> FALSE]

Init ==
    /\ \E p \in InitPositions :
          pos = [x1 |-> p[1], x2 |-> p[2], y1 |-> 0, y2 |-> 0, z |-> p[3]]
    /\ tgt = pos
    /\ moving = [a \in Axes |-> FALSE]
    /\ rdbd = InitDeadbands
    /\ lowlimX = None
    /\ hilimX = None
    /\ theta_pv = 0
    /\ pc = "idle"
    /\ f = [Frame("none", 0, 0) EXCEPT !.low = None, !.hi = None]
    /\ calls = <<>>
    /\ raised = "none"
    /\ result = NoResult
    /\ nops = 0
    /\ nint = 0

(***************************************************************************)
(* The axis collaborator (IMS motor): mv, mvr, wait, stop, and the motor   *)
(* itself reaching its setpoint.                                           *)
(***************************************************************************)
mv(a, v) ==
    /\ calls' = Append(calls, <<a, "mv", v>>)
    /\ tgt' = [tgt EXCEPT ![a] = v]
    /\ moving' = [moving EXCEPT ![a] = TRUE]
    /\ pos' = pos

mvr(a, d) ==
    /\ calls' = Append(calls, <<a, "mvr", d>>)
    /\ tgt' = [tgt EXCEPT ![a] = pos[a] + d]
    /\ moving' = [moving EXCEPT ![a] = TRUE]
    /\ pos' = pos

wait(a) ==
    /\ ~moving[a]
    /\ calls' = Append(calls, <<a, "wait", 0>>)
    /\ UNCHANGED hw

(* LADM.stop (lines 455-460): stop() on each of the five axes.  A stopped   *)
(* axis halts where it is and its setpoint follows its readback.           *)
stop ==
    /\ calls' = calls \o << <<"x1", "stop", 0>>, <<"x2", "stop", 0>>,
                            <<"y1", "stop", 0>>, <<"y2", "stop", 0>>,
                            <<"z", "stop", 0>> >>
    /\ moving' = [a \in Axes |-> FALSE]
    /\ tgt' = pos
    /\ pos' = pos

MotorSettle ==
    \E a \in Axes :
        /\ moving[a]
        /\ pos' = [pos EXCEPT ![a] = tgt[a]]
        /\ moving' = [moving EXCEPT ![a] = FALSE]
        /\ UNCHANGED <<tgt, rdbd, lowlimX, hilimX, theta_pv, pc, f, calls,
                       raised, result, nops, nint>>

(* the operation returns: normally with a value, or by raising *)
Return(kind, val) ==
    /\ pc' = "idle"
    /\ result' = [kind |-> kind, val |-> val]
    /\ raised' = "none"

Raise(e) ==
    /\ pc' = "idle"
    /\ result' = NoResult
    /\ raised' = e

Enter(op, arg, off, first) ==
    /\ pc = "idle"
    /\ pc' = first
    /\ f' = Frame(op, arg, off)
    /\ calls' = <<>>

(* a started operation has neither returned nor raised yet *)
Started == raised' = "none" /\ result' = NoResult

(***************************************************************************)
(* Readbacks: wmTheta (lines 282-302) and wmX (lines 395-411).             *)
(***************************************************************************)
tolerance == 10

(* variant: the comparison with the tolerance made non-strict *)
AnglesAgree_le(theta1, theta2) ==
    theta1 # NaN /\ theta2 # NaN /\ Abs(theta1 - theta2) <= tolerance

AnglesAgree(theta1, theta2) ==
    theta1 # NaN /\ theta2 # NaN /\ Abs(theta1 - theta2) < tolerance

(* the value wmTheta returns in a state, as [kind, val]; the fourth        *)
(* component of the samz_offset > 0 tuple (ca_samz_offset) is left out     *)
WmTheta(samz_offset) ==
    LET theta1 == x1ToTheta(pos["x1"], samz_offset)
        theta2 == x2ToTheta(pos["x2"], samz_offset)
    IN  IF samz_offset > 0
        THEN [kind |-> "tuple", val |-> <<theta1, theta2, samz_offset>>]
        ELSE IF AnglesAgree(theta1, theta2)
        THEN [kind |-> "float", val |-> <<theta1>>]
        ELSE [kind |-> "float", val |-> <<NaN>>]

ProjectionsAgree(x_x1, x_x2, db_x1, db_x2) == Abs(x_x1 - x_x2) <= db_x1 + db_x2

(* variant: the z test made non-strict *)
ZAgrees_le(z_var, z_theo, db_z) == Abs(z_var - z_theo) <= 2 * db_z

ZAgrees(z_var, z_theo, db_z) == Abs(z_var - z_theo) < 2 * db_z

WmX ==
    LET m == MotorsTox(pos["x1"], pos["x2"], pos["z"])
    IN  IF ProjectionsAgree(m[1], m[2], rdbd["x1"], rdbd["x2"])
        THEN IF ZAgrees(pos["z"], xToz(m[1]), rdbd["z"]) THEN m[1] ELSE NaN
        ELSE NaN

(* self.theta is a VirtualMotor supplied from outside ladm.py: its         *)
(* position() is the theta readback, its wait() blocks until the rails and *)
(* z have settled                                                          *)
ThetaPosition == WmTheta(0).val[1]

ThetaWait == ~moving["x1"] /\ ~moving["x2"] /\ ~moving["z"]

(* wmTheta(samz_offset); the frame keeps the rail positions it read *)
wmTheta ==
    \E off \in WmOffsets :
        /\ pc = "idle"
        /\ nops < MaxOps
        /\ nops' = nops + 1
        /\ f' = [Frame("wmTheta", 0, off) EXCEPT !.x1_var = pos["x1"],
                                                  !.x2_var = pos["x2"]]
        /\ calls' = <<>>
        /\ result' = WmTheta(off)
        /\ raised' = "none"
        /\ UNCHANGED <<hw, rdbd, lowlimX, hilimX, theta_pv, pc, nint>>

(* wmX(); x1_var, x2_var, z_var are its locals of lines 396-398 *)
wmX ==
    /\ pc = "idle"
    /\ nops < MaxOps
    /\ nops' = nops + 1
    /\ f' = [Frame("wmX", 0, 0) EXCEPT !.x1_var = pos["x1"],
                                       !.x2_var = pos["x2"],
                                       !.z_var = pos["z"]]
    /\ calls' = <<>>
    /\ result' = [kind |-> "float", val |-> <<WmX>>]
    /\ raised' = "none"
    /\ UNCHANGED <<hw, rdbd, lowlimX, hilimX, theta_pv, pc, nint>>

(***************************************************************************)
(* Reports: status (lines 222-236), ThetaToMotors_print (lines 238-246)    *)
(* and ca_theta (lines 413-433).  What they print is kept in the frame.    *)
(***************************************************************************)
CaOffsets == {0, 100000}

(* the tuple ca_theta returns: no forcing of dz at theta = 0 *)
CaTheta(cal_theta, samz_offset) ==
    LET sinT == Sin(cal_theta)
        den  == MulDiv(sin_alpha_r, Sin(alpha_r + cal_theta), S)
        rr   == r - MulDiv(samz_offset, alpha_cos, S)
        RR   == R - MulDiv(samz_offset, alpha_cos, S)
        x1   == MulDiv(rr, sinT, den)
        x2   == MulDiv(RR, sinT, den)
        dz   == IF sinT = 0 THEN NaN
                ELSE MulDiv(rr, S, sin_alpha_r) - MulDiv(x1, sin_alpha_r, sinT)
    IN  <<cal_theta, x1, x2, dz, samz_offset>>

(* what the two calculating reports compute, for each of their inputs *)
PrintedTargets == [theta \in Thetas |-> ThetaToMotors(theta, 0)]

CaRows == [cal_theta \in Thetas |->
              [samz_offset \in CaOffsets |-> CaTheta(cal_theta, samz_offset)]]

(* status(): reads theta, XT and the five axes, prints the table *)
status ==
    /\ pc = "idle"
    /\ nops < MaxOps
    /\ nops' = nops + 1
    /\ f' = [Frame("status", 0, 0) EXCEPT !.theta_now = ThetaPosition,
                                          !.x1_var = pos["x1"],
                                          !.x2_var = pos["x2"],
                                          !.z_var = pos["z"]]
    /\ calls' = <<>>
    /\ result' = [kind |-> "none", val |-> <<>>]
    /\ raised' = "none"
    /\ UNCHANGED <<hw, rdbd, lowlimX, hilimX, theta_pv, pc, nint>>

(* variant: the report also sends x1 to the value it prints *)
ThetaToMotors_print_moves ==
    \E theta \in Thetas :
        /\ pc = "idle"
        /\ nops < MaxOps
        /\ nops' = nops + 1
        /\ f' = Frame("ThetaToMotors_print", theta, 0)
        /\ calls' = <<<<"x1", "mv", ThetaToMotors(theta, 0)[1]>>>>
        /\ tgt' = [tgt EXCEPT !["x1"] = ThetaToMotors(theta, 0)[1]]
        /\ moving' = [moving EXCEPT !["x1"] = TRUE]
        /\ result' = [kind |-> "none", val |-> <<>>]
        /\ raised' = "none"
        /\ UNCHANGED <<pos, rdbd, lowlimX, hilimX, theta_pv, pc, nint>>

(* ThetaToMotors_print(theta): prints ThetaToMotors(theta) *)
ThetaToMotors_print ==
    \E theta \in Thetas :
        /\ pc = "idle"
        /\ nops < MaxOps
        /\ nops' = nops + 1
        /\ f' = [Frame("ThetaToMotors_print", theta, 0) EXCEPT
                   !.x1_var = PrintedTargets[theta][1],
                   !.x2_var = PrintedTargets[theta][2],
                   !.z_var = PrintedTargets[theta][3]]
        /\ calls' = <<>>
        /\ result' = [kind |-> "none", val |-> <<>>]
        /\ raised' = "none"
        /\ UNCHANGED <<hw, rdbd, lowlimX, hilimX, theta_pv, pc, nint>>

(* ca_theta(cal_theta, samz_offset): prints and returns the table row *)
ca_theta ==
    \E cal_theta \in Thetas, samz_offset \in CaOffsets :
        /\ pc = "idle"
        /\ nops < MaxOps
        /\ nops' = nops + 1
        /\ f' = Frame("ca_theta", cal_theta, samz_offset)
        /\ calls' = <<>>
        /\ result' = [kind |-> "tuple", val |-> CaRows[cal_theta][samz_offset]]
        /\ raised' = "none"
        /\ UNCHANGED <<hw, rdbd, lowlimX, hilimX, theta_pv, pc, nint>>

(***************************************************************************)
(* moveTheta (lines 248-275) and __theta_movement (lines 193-220).         *)
(***************************************************************************)
(* variant: a change of exactly 28 degrees is split as well *)
NeedsSplit_ge(theta, theta_now) == ~(Abs(theta - theta_now) < 28000)

NeedsSplit(theta, theta_now) == ~(Abs(theta - theta_now) <= 28000)

MidTheta(theta, theta_now) == FDiv(theta + theta_now, 2)

(* variant: the comparison of line 197 reversed *)
ZFirst_gt(z_now, z_var) == z_now > z_var

(* variant: z also goes first when it is already at its target *)
ZFirst_le(z_now, z_var) == z_now <= z_var

ZFirst(z_now, z_var) == z_now < z_var

moveTheta ==
    \E theta \in Thetas, off \in SamzOffsets :
        /\ nops < MaxOps
        /\ nops' = nops + 1
        /\ Enter("moveTheta", theta, off, "L249")
        /\ Started
        /\ UNCHANGED <<hw, rdbd, lowlimX, hilimX, theta_pv, nint>>

(* variant: with an undefined readback the x1-derived angle is taken as the *)
(* starting angle and the move goes on                                      *)
moveTheta_L249_guess ==
    /\ pc = "L249"
    /\ LET theta_now == IF ThetaPosition = NaN
                        THEN x1ToTheta(pos["x1"], f.off) ELSE ThetaPosition
       IN  /\ pc' = "L194"
           /\ f' = [f EXCEPT
                     !.theta_now = theta_now,
                     !.tm_theta = IF NeedsSplit(f.arg, theta_now)
                                  THEN MidTheta(f.arg, theta_now)
                                  ELSE f.arg,
                     !.ret = IF NeedsSplit(f.arg, theta_now)
                             THEN "L273" ELSE "L275"]
           /\ UNCHANGED <<raised, result>>
    /\ UNCHANGED <<hw, rdbd, lowlimX, hilimX, theta_pv, calls, nops, nint>>

(* lines 249-251 and 268-272: read theta_now, choose message, one move or two *)
moveTheta_L249 ==
    /\ pc = "L249"
    /\ LET theta_now == ThetaPosition
       IN  IF theta_now = NaN
           THEN LET theta1 == x1ToTheta(pos["x1"], f.off)
                    theta2 == x2ToTheta(pos["x2"], f.off)
                    th1 == ThetaToMotors(theta1, 0)
                    th2 == ThetaToMotors(theta2, 0)
                IN  /\ Return("message", <<theta1, th1[2], th1[3],
                                           theta2, th2[1], th2[3]>>)
                    /\ f' = [f EXCEPT !.theta_now = NaN]
           ELSE /\ pc' = "L194"
                /\ f' = [f EXCEPT
                          !.theta_now = theta_now,
                          !.tm_theta = IF NeedsSplit(f.arg, theta_now)
                                       THEN MidTheta(f.arg, theta_now)
                                       ELSE f.arg,
                          !.ret = IF NeedsSplit(f.arg, theta_now)
                                  THEN "L273" ELSE "L275"]
                /\ UNCHANGED <<raised, result>>
    /\ UNCHANGED <<hw, rdbd, lowlimX, hilimX, theta_pv, calls, nops, nint>>

(* lines 273-274: self.theta.wait(), then the second __theta_movement *)
moveTheta_L273 ==
    /\ pc = "L273"
    /\ ThetaWait
    /\ pc' = "L194"
    /\ f' = [f EXCEPT !.tm_theta = f.arg, !.ret = "L275"]
    /\ UNCHANGED <<hw, rdbd, lowlimX, hilimX, theta_pv, calls, raised,
                   result, nops, nint>>

(* line 275: self.status(), a report; then moveTheta returns None *)
moveTheta_L275 ==
    /\ pc = "L275"
    /\ Return("none", <<>>)
    /\ UNCHANGED <<hw, rdbd, lowlimX, hilimX, theta_pv, f, calls, nops, nint>>

(* lines 194-197: targets, z_now and the choice of which group goes first *)
theta_movement_L194 ==
    /\ pc = "L194"
    /\ LET m == ThetaToMotors(f.tm_theta, f.off)
           z_now == pos["z"]
       IN  /\ f' = [f EXCEPT !.x1_var = m[1], !.x2_var = m[2], !.z_var = m[3],
                             !.z_now = z_now, !.base = Len(calls),
                             !.subs = Append(f.subs, f.tm_theta)]
           /\ pc' = IF ZFirst(z_now, m[3]) THEN "L199" ELSE "L209"
    /\ UNCHANGED <<hw, rdbd, lowlimX, hilimX, theta_pv, calls, raised,
                   result, nops, nint>>

(* lines 199-205: z first, then the rails, then waitAll *)
theta_movement_zfirst ==
    /\ \/ pc = "L199" /\ mv("z", f.z_var) /\ pc' = "L200"
       \/ pc = "L200" /\ wait("z") /\ pc' = "L203"
       \/ pc = "L203" /\ mv("x1", f.x1_var) /\ pc' = "L204"
       \/ pc = "L204" /\ mv("x2", f.x2_var) /\ pc' = "L278"
    /\ UNCHANGED <<rdbd, lowlimX, hilimX, theta_pv, f, raised, result, nops,
                   nint>>

(* lines 209-215: the rails first, their waits, then z, then waitAll *)
theta_movement_xfirst ==
    /\ \/ pc = "L209" /\ mv("x1", f.x1_var) /\ pc' = "L210"
       \/ pc = "L210" /\ mv("x2", f.x2_var) /\ pc' = "L211"
       \/ pc = "L211" /\ wait("x1") /\ pc' = "L212"
       \/ pc = "L212" /\ wait("x2") /\ pc' = "L214"
       \/ pc = "L214" /\ mv("z", f.z_var) /\ pc' = "L278"
    /\ UNCHANGED <<rdbd, lowlimX, hilimX, theta_pv, f, raised, result, nops,
                   nint>>

(* variant: waitAll without the wait on z *)
waitAll_noz ==
    /\ \/ pc = "L278" /\ pc' = "L279" /\ UNCHANGED <<hw, calls>>
       \/ pc = "L279" /\ wait("x1") /\ pc' = "L280"
       \/ pc = "L280" /\ wait("x2") /\ pc' = "L220"
    /\ UNCHANGED <<rdbd, lowlimX, hilimX, theta_pv, f, raised, result, nops,
                   nint>>

(* lines 277-280, called from lines 205 and 215 *)
waitAll ==
    /\ \/ pc = "L278" /\ wait("z") /\ pc' = "L279"
       \/ pc = "L279" /\ wait("x1") /\ pc' = "L280"
       \/ pc = "L280" /\ wait("x2") /\ pc' = "L220"
    /\ UNCHANGED <<rdbd, lowlimX, hilimX, theta_pv, f, raised, result, nops,
                   nint>>

(* line 218: except KeyboardInterrupt: self.stop() *)
theta_movement_L218 ==
    /\ pc = "L218"
    /\ stop
    /\ pc' = "L220"
    /\ UNCHANGED <<rdbd, lowlimX, hilimX, theta_pv, f, raised, result, nops,
                   nint>>

(* line 220: finally: theta_pv.put(wmTheta()); then back to moveTheta, or  *)
(* on with an exception the handler did not absorb                         *)
theta_movement_L220 ==
    /\ pc = "L220"
    /\ theta_pv' = WmTheta(0).val[1]
    /\ IF f.exc
       THEN Raise("KeyboardInterrupt")
       ELSE pc' = f.ret /\ UNCHANGED <<raised, result>>
    /\ UNCHANGED <<hw, rdbd, lowlimX, hilimX, f, calls, nops, nint>>

(***************************************************************************)
(* moveX (lines 326-354).                                                  *)
(***************************************************************************)
(* variant: the upper limit is not tested *)
MoveXRefused_low(x, low, hi) == x <= low

MoveXRefused(x, low, hi) == (x <= low) \/ (x >= hi)

MoveXZFirst(z_var, z_now) == z_var > z_now

moveX ==
    \E x \in Xs :
        /\ nops < MaxOps
        /\ nops' = nops + 1
        /\ Enter("moveX", x, 0, "L330")
        /\ Started
        /\ UNCHANGED <<hw, rdbd, lowlimX, hilimX, theta_pv, nint>>

(* line 330: the soft-limit test; comparing a number with None raises *)
moveX_L330 ==
    /\ pc = "L330"
    /\ IF lowlimX = None \/ (~(f.arg <= lowlimX) /\ hilimX = None)
       THEN Raise("TypeError")
       ELSE IF MoveXRefused(f.arg, lowlimX, hilimX)
       THEN Return("none", <<>>)
       ELSE pc' = "L335" /\ UNCHANGED <<raised, result>>
    /\ UNCHANGED <<hw, rdbd, lowlimX, hilimX, theta_pv, f, calls, nops, nint>>

(* lines 335-339 *)
moveX_L335 ==
    /\ pc = "L335"
    /\ f' = [f EXCEPT !.x1_var = xTox12(f.arg), !.x2_var = xTox12(f.arg),
                      !.z_var = xToz(f.arg), !.z_now = pos["z"]]
    /\ pc' = IF MoveXZFirst(xToz(f.arg), pos["z"]) THEN "L341" ELSE "L348"
    /\ UNCHANGED <<hw, rdbd, lowlimX, hilimX, theta_pv, calls, raised,
                   result, nops, nint>>

(* lines 341-345: z, its wait, then the rails; no wait on the rails *)
moveX_zfirst ==
    /\ \/ pc = "L341" /\ mv("z", f.z_var) /\ pc' = "L342"
                      /\ UNCHANGED <<raised, result>>
       \/ pc = "L342" /\ wait("z") /\ pc' = "L344"
                      /\ UNCHANGED <<raised, result>>
       \/ pc = "L344" /\ mv("x1", f.x1_var) /\ pc' = "L345"
                      /\ UNCHANGED <<raised, result>>
       \/ pc = "L345" /\ mv("x2", f.x2_var) /\ Return("none", <<>>)
    /\ UNCHANGED <<rdbd, lowlimX, hilimX, theta_pv, f, nops, nint>>

(* lines 348-352: the rails and their waits; line 352 only prints *)
moveX_xfirst ==
    /\ \/ pc = "L348" /\ mv("x1", f.x1_var) /\ pc' = "L349"
                      /\ UNCHANGED <<raised, result>>
       \/ pc = "L349" /\ mv("x2", f.x2_var) /\ pc' = "L350"
                      /\ UNCHANGED <<raised, result>>
       \/ pc = "L350" /\ wait("x1") /\ pc' = "L351"
                      /\ UNCHANGED <<raised, result>>
       \/ pc = "L351" /\ wait("x2") /\ Return("none", <<>>)
    /\ UNCHANGED <<rdbd, lowlimX, hilimX, theta_pv, f, nops, nint>>

(***************************************************************************)
(* tweakH (lines 356-385) and mvrV (lines 387-393).                        *)
(***************************************************************************)
TweakZFirst(z_var, z_now) == z_var > z_now

tweakH ==
    \E x \in DXs :
        /\ nops < MaxOps
        /\ nops' = nops + 1
        /\ Enter("tweakH", x, 0, "L361")
        /\ Started
        /\ UNCHANGED <<hw, rdbd, lowlimX, hilimX, theta_pv, nint>>

(* variant: tweakH with the soft-limit test of moveX in front *)
tweakH_L361_limited ==
    /\ pc = "L361"
    /\ IF lowlimX # None /\ hilimX # None
          /\ ((f.arg <= lowlimX) \/ (f.arg >= hilimX))
       THEN /\ Return("none", <<>>)
            /\ UNCHANGED f
       ELSE /\ f' = [f EXCEPT !.x1_var = xTox12(f.arg),
                              !.x2_var = xTox12(f.arg),
                              !.z_var = xToz(f.arg), !.z_now = pos["z"]]
            /\ pc' = IF xToz(f.arg) > pos["z"] THEN "L367" ELSE "L376"
            /\ UNCHANGED <<raised, result>>
    /\ UNCHANGED <<hw, rdbd, lowlimX, hilimX, theta_pv, calls, nops, nint>>

(* lines 361-365 *)
tweakH_L361 ==
    /\ pc = "L361"
    /\ f' = [f EXCEPT !.x1_var = xTox12(f.arg), !.x2_var = xTox12(f.arg),
                      !.z_var = xToz(f.arg), !.z_now = pos["z"]]
    /\ pc' = IF TweakZFirst(xToz(f.arg), pos["z"]) THEN "L367" ELSE "L376"
    /\ UNCHANGED <<hw, rdbd, lowlimX, hilimX, theta_pv, calls, raised,
                   result, nops, nint>>

(* lines 367-372 *)
tweakH_zfirst ==
    /\ \/ pc = "L367" /\ mvr("z", f.z_var - f.z_now) /\ pc' = "L368"
                      /\ UNCHANGED <<raised, result>>
       \/ pc = "L368" /\ wait("z") /\ pc' = "L371"
                      /\ UNCHANGED <<raised, result>>
       \/ pc = "L371" /\ mvr("x1", f.x1_var) /\ pc' = "L372"
                      /\ UNCHANGED <<raised, result>>
       \/ pc = "L372" /\ mvr("x2", f.x2_var) /\ Return("none", <<>>)
    /\ UNCHANGED <<rdbd, lowlimX, hilimX, theta_pv, f, nops, nint>>

(* variant: z is moved without waiting for the rails *)
tweakH_xfirst_nowait ==
    /\ \/ pc = "L376" /\ mvr("x1", f.x1_var) /\ pc' = "L377"
                      /\ UNCHANGED <<raised, result>>
       \/ pc = "L377" /\ mvr("x2", f.x2_var) /\ pc' = "L382"
                      /\ UNCHANGED <<raised, result>>
       \/ pc = "L382" /\ mvr("z", f.z_var - f.z_now) /\ Return("none", <<>>)
    /\ UNCHANGED <<rdbd, lowlimX, hilimX, theta_pv, f, nops, nint>>

(* lines 376-382 *)
tweakH_xfirst ==
    /\ \/ pc = "L376" /\ mvr("x1", f.x1_var) /\ pc' = "L377"
                      /\ UNCHANGED <<raised, result>>
       \/ pc = "L377" /\ mvr("x2", f.x2_var) /\ pc' = "L378"
                      /\ UNCHANGED <<raised, result>>
       \/ pc = "L378" /\ wait("x1") /\ pc' = "L379"
                      /\ UNCHANGED <<raised, result>>
       \/ pc = "L379" /\ wait("x2") /\ pc' = "L382"
                      /\ UNCHANGED <<raised, result>>
       \/ pc = "L382" /\ mvr("z", f.z_var - f.z_now) /\ Return("none", <<>>)
    /\ UNCHANGED <<rdbd, lowlimX, hilimX, theta_pv, f, nops, nint>>

mvrV ==
    \E y \in DYs :
        /\ nops < MaxOps
        /\ nops' = nops + 1
        /\ Enter("mvrV", y, 0, "L390")
        /\ Started
        /\ UNCHANGED <<hw, rdbd, lowlimX, hilimX, theta_pv, nint>>

(* lines 390-391 *)
mvrV_body ==
    /\ \/ pc = "L390" /\ mvr("y1", f.arg) /\ pc' = "L391"
                      /\ UNCHANGED <<raised, result>>
       \/ pc = "L391" /\ mvr("y2", f.arg) /\ Return("none", <<>>)
    /\ UNCHANGED <<rdbd, lowlimX, hilimX, theta_pv, f, nops, nint>>

(* lines 354, 385, 393: except KeyboardInterrupt: self.stop() *)
except_stop ==
    /\ pc \in {"L354", "L385", "L393"}
    /\ stop
    /\ Return("none", <<>>)
    /\ UNCHANGED <<rdbd, lowlimX, hilimX, theta_pv, f, nops, nint>>

(***************************************************************************)
(* The soft-limit setters (lines 443-447).                                 *)
(***************************************************************************)
_set_lowlimX ==
    \E value \in LowLimits :
        /\ pc = "idle"
        /\ lowlimX # value
        /\ lowlimX' = value
        /\ UNCHANGED <<hw, rdbd, hilimX, theta_pv, pc, f, calls, raised,
                       result, nops, nint>>

_set_hilimX ==
    \E value \in HiLimits :
        /\ pc = "idle"
        /\ hilimX # value
        /\ hilimX' = value
        /\ UNCHANGED <<hw, rdbd, lowlimX, theta_pv, pc, f, calls, raised,
                       result, nops, nint>>

(***************************************************************************)
(* KeyboardInterrupt, delivered before the statement at pc completes.      *)
(* Inside a try block it enters the handler; elsewhere it leaves the       *)
(* operation.  Raised in the handler of __theta_movement, the finally      *)
(* clause still runs.                                                      *)
(***************************************************************************)
TryTheta == {"L199", "L200", "L203", "L204", "L209", "L210", "L211", "L212",
             "L214", "L278", "L279", "L280"}

TryMoveX == {"L335", "L341", "L342", "L344", "L345", "L348", "L349", "L350",
             "L351"}

TryTweakH == {"L361", "L367", "L368", "L371", "L372", "L376", "L377", "L378",
              "L379", "L382"}

TryMvrV == {"L390", "L391"}

Handler(p) ==
    IF p \in TryTheta THEN "L218"
    ELSE IF p \in TryMoveX THEN "L354"
    ELSE IF p \in TryTweakH THEN "L385"
    ELSE IF p \in TryMvrV THEN "L393"
    ELSE IF p = "L218" THEN "L220"
    ELSE "idle"

KeyboardInterrupt ==
    /\ pc # "idle"
    /\ nint < MaxInterrupts
    /\ nint' = nint + 1
    /\ f' = [f EXCEPT !.nint = f.nint + 1, !.exc = (pc = "L218")]
    /\ IF Handler(pc) = "idle"
       THEN Raise("KeyboardInterrupt")
       ELSE pc' = Handler(pc) /\ UNCHANGED <<raised, result>>
    /\ UNCHANGED <<hw, rdbd, lowlimX, hilimX, theta_pv, calls, nops>>

Next ==
    \/ moveTheta \/ moveTheta_L249 \/ moveTheta_L273 \/ moveTheta_L275
    \/ theta_movement_L194 \/ theta_movement_zfirst \/ theta_movement_xfirst
    \/ waitAll \/ theta_movement_L218 \/ theta_movement_L220
    \/ moveX \/ moveX_L330 \/ moveX_L335 \/ moveX_zfirst \/ moveX_xfirst
    \/ tweakH \/ tweakH_L361 \/ tweakH_zfirst \/ tweakH_xfirst
    \/ mvrV \/ mvrV_body \/ except_stop
    \/ wmTheta \/ wmX \/ status \/ ThetaToMotors_print \/ ca_theta
    \/ _set_lowlimX \/ _set_hilimX
    \/ KeyboardInterrupt \/ MotorSettle

Spec == Init /\ [][Next]_vars

(***************************************************************************)
(* moveTheta without interrupts, every statement of the running call       *)
(* eventually executed and every commanded axis eventually settling.       *)
(***************************************************************************)
ThetaSteps ==
    \/ moveTheta_L249 \/ moveTheta_L273 \/ moveTheta_L275
    \/ theta_movement_L194 \/ theta_movement_zfirst \/ theta_movement_xfirst
    \/ waitAll \/ theta_movement_L220

NextLive == moveTheta \/ ThetaSteps \/ MotorSettle

(* the axes the statement at p blocks on *)
WaitsOn(p) ==
    CASE p \in {"L200", "L278"} -> {"z"}
      [] p \in {"L211", "L279"} -> {"x1"}
      [] p \in {"L212", "L280"} -> {"x2"}
      [] p = "L273" -> {"x1", "x2", "z"}
      [] OTHER -> {}

PcLabels == TryTheta \cup {"idle", "L249", "L194", "L220", "L273", "L275"}

(* the running call executes the statement at pc: every statement moves pc, *)
(* and it can run unless it is a wait on an axis still moving.  Written on  *)
(* pc alone, so that its enabling condition is that guard.                  *)
StatementRuns ==
    /\ pc # "idle"
    /\ \A a \in WaitsOn(pc) : ~moving[a]
    /\ pc' \in PcLabels
    /\ pc' # pc

SpecLive ==
    Init /\ [][NextLive]_vars /\ WF_pc(StatementRuns) /\ WF_vars(MotorSettle)

(***************************************************************************)
(* The conversion functions on their own: the module-level ThetaToMotors   *)
(* called directly, and wmTheta read with the rails standing where         *)
(* ThetaToMotors puts them.                                                *)
(***************************************************************************)
ConvThetas == {0, 5000, 10000, 27000, 45000, 60000}

ConvOffsets == {-100000, 0, 100000}

(* the mechanism standing at theta: rails and z as ThetaToMotors gives them *)
InitConv ==
    /\ \E t \in ConvThetas :
          LET m == ThetaToMotors(t, 0)
          IN  pos = [x1 |-> m[1], x2 |-> m[2], y1 |-> 0, y2 |-> 0, z |-> m[3]]
    /\ tgt = pos
    /\ moving = [a \in Axes |-> FALSE]
    /\ rdbd = InitDeadbands
    /\ lowlimX = None
    /\ hilimX = None
    /\ theta_pv = 0
    /\ pc = "idle"
    /\ f = [Frame("none", 0, 0) EXCEPT !.low = None, !.hi = None]
    /\ calls = <<>>
    /\ raised = "none"
    /\ result = NoResult
    /\ nops = 0
    /\ nint = 0

(* a call of ThetaToMotors(theta, samz_offset) *)
call_ThetaToMotors ==
    \E theta \in ConvThetas, off \in ConvOffsets :
        /\ pc = "idle"
        /\ nops < MaxOps
        /\ nops' = nops + 1
        /\ f' = Frame("ThetaToMotors", theta, off)
        /\ calls' = <<>>
        /\ result' = [kind |-> "tuple", val |-> ThetaToMotors(theta, off)]
        /\ raised' = "none"
        /\ UNCHANGED <<hw, rdbd, lowlimX, hilimX, theta_pv, pc, nint>>

NextConv == call_ThetaToMotors \/ wmTheta

SpecConv == InitConv /\ [][NextConv]_vars

(***************************************************************************)
(* pcdsdevices/dccm.py: DCCMEnergy and DCCMEnergyAcr (lines 41-202).       *)
(* Energies are in thousandths of the source's unit, Bragg angles in mdeg. *)
(***************************************************************************)
(* 12398.419, in thousandths *)
hc == 12398419

(* dspacing = 3.13560114 (lines 113 and 131), scaled by 10^6 *)
dspacing == 3135601

(* 12398.419/(2*dspacing), in thousandths: the energy whose arcsin         *)
(* argument is 1                                                           *)
hc_2d == MulDiv(hc, 1000000, 2 * dspacing)

(* arcsin on [0, 1] scaled by S, in mdeg: the angle whose Sin is nearest *)
RECURSIVE ArcSinSearch(_, _, _)
ArcSinSearch(x, lo, hi) ==
    IF hi - lo <= 1
    THEN IF x - Sin(lo) <= Sin(hi) - x THEN lo ELSE hi
    ELSE LET mid == (lo + hi) \div 2
         IN  IF Sin(mid) <= x THEN ArcSinSearch(x, mid, hi)
             ELSE ArcSinSearch(x, lo, mid)

(* 12398.419/energy/(2*dspacing) lies outside [-1, 1] *)
ArgOutside(energy) == Abs(energy) < hc_2d

(* np.rad2deg(np.arcsin(12398.419/energy/(2*dspacing))), energy # 0;       *)
(* np.arcsin of an argument outside [-1, 1] is nan (with a RuntimeWarning) *)
energyToSi111BraggAngle(energy) ==
    IF ArgOutside(energy) THEN NaN
    ELSE Sgn(energy) * ArcSinSearch(MulDiv(hc_2d, S, Abs(energy)), 0, 90000)

(* 12398.419/(2*dspacing*np.sin(np.deg2rad(theta))), 0 < theta < 180 deg *)
thetaToSi111energy(theta) == MulDiv(S, hc_2d, Sin(theta))

(* energies: below the arcsin domain (the declared 4..25 among them), at   *)
(* its edge, and inside it                                                 *)
Energies ==
    {4000, 7000, 9500, 12000, 25000, 1000000, 1977000,
     1977041, 1977100, 1980000, 2000000, 2500000, 3000000, 4000000,
     5000000, 6000000, 7000000, 8000000, 9000000, 10000000, 12398419,
     15000000, 18000000, 20000000, 22000000, 25000000}

BraggAngles ==
    {4536, 5000, 7000, 9175, 10000, 12000, 14308, 15000, 18000, 20000,
     25000, 29621, 30000, 35000, 40000, 45000, 50000, 55000, 60000, 65000,
     70000, 75000, 81310, 85000, 89000, 90000}

(* limits=(4, 25) of the energy pseudo axis (line 60), in thousandths *)
energy_limits == <<4000, 25000>>

(* the classes whose forward and inverse are modelled *)
EnergyClasses == {"DCCMEnergy", "DCCMEnergyAcr"}

(* a DCCMEnergy object after construction; no LADM axis is involved *)
InitDCCM ==
    /\ Init
    /\ pos = [a \in Axes |-> 0]

(* a call of energyToSi111BraggAngle(energy) *)
call_energyToSi111BraggAngle ==
    \E energy \in Energies :
        /\ pc = "idle"
        /\ nops < MaxOps
        /\ nops' = nops + 1
        /\ f' = Frame("energyToSi111BraggAngle", energy, 0)
        /\ result' = [kind |-> "float",
                      val |-> <<energyToSi111BraggAngle(energy)>>]
        /\ raised' = "none"
        /\ UNCHANGED <<hw, rdbd, lowlimX, hilimX, theta_pv, pc, calls, nint>>

(* a call of thetaToSi111energy(theta) *)
call_thetaToSi111energy ==
    \E theta \in BraggAngles :
        /\ pc = "idle"
        /\ nops < MaxOps
        /\ nops' = nops + 1
        /\ f' = Frame("thetaToSi111energy", theta, 0)
        /\ result' = [kind |-> "float", val |-> <<thetaToSi111energy(theta)>>]
        /\ raised' = "none"
        /\ UNCHANGED <<hw, rdbd, lowlimX, hilimX, theta_pv, pc, calls, nint>>

(* forward (lines 77-86, 182-191): theta is computed, then the name th1,   *)
(* bound nowhere in the function or the module, is evaluated: NameError    *)
forward ==
    \E cls \in EnergyClasses, energy \in Energies :
        /\ pc = "idle"
        /\ nops < MaxOps
        /\ nops' = nops + 1
        /\ f' = [Frame("forward", energy, 0) EXCEPT
                   !.tm_theta = energyToSi111BraggAngle(energy),
                   !.ret = cls]
        /\ result' = NoResult
        /\ raised' = "NameError"
        /\ UNCHANGED <<hw, rdbd, lowlimX, hilimX, theta_pv, pc, calls, nint>>

(* inverse (lines 88-97, 193-202): theta = real_pos.th1, then the unbound  *)
(* name th1 is evaluated as the argument of thetaToSi111energy: NameError  *)
inverse ==
    \E cls \in EnergyClasses, theta \in BraggAngles :
        /\ pc = "idle"
        /\ nops < MaxOps
        /\ nops' = nops + 1
        /\ f' = [Frame("inverse", theta, 0) EXCEPT !.tm_theta = theta,
                                                    !.ret = cls]
        /\ result' = NoResult
        /\ raised' = "NameError"
        /\ UNCHANGED <<hw, rdbd, lowlimX, hilimX, theta_pv, pc, calls, nint>>

NextDCCM ==
    \/ call_energyToSi111BraggAngle \/ call_thetaToSi111energy
    \/ forward \/ inverse

SpecDCCM == InitDCCM /\ [][NextDCCM]_vars

(***************************************************************************)
(* Properties.                                                             *)
(***************************************************************************)
SeqOps == {"moveTheta", "moveX", "tweakH", "mvrV"}

(* the calls of the current (or last) __theta_movement *)
SubIdx == (f.base + 1)..Len(calls)

IsRailMove(c) == c[1] \in {"x1", "x2"} /\ c[2] \in {"mv", "mvr"}

IsMoveCmd(c) == c[2] \in {"mv", "mvr"}

InThetaMovement == f.op = "moveTheta" /\ f.subs # <<>>

Stopped(a) == \E i \in 1..Len(calls) : calls[i] = <<a, "stop", 0>>

(* C1: in a __theta_movement whose z target is above the z position it     *)
(* read, every move command to x1 or x2 comes after the z move command and *)
(* after the return of the wait on z.                                      *)
C1_ZBeforeRails ==
    (InThetaMovement /\ f.z_now < f.z_var) =>
        \A i \in SubIdx :
            IsRailMove(calls[i]) =>
                \E j \in SubIdx, k \in SubIdx :
                    /\ j < k /\ k < i
                    /\ calls[j] = <<"z", "mv", f.z_var>>
                    /\ calls[k] = <<"z", "wait", 0>>

C1_Witness ==
    /\ InThetaMovement /\ f.z_now < f.z_var /\ f.nint = 0
    /\ pc = "L220"
    /\ \E i \in SubIdx : calls[i] = <<"x2", "mv", f.x2_var>>

(* C2: in a __theta_movement whose z target is at or below the z position  *)
(* it read, the z move command comes after both rail move commands and     *)
(* after the return of both rail waits.                                    *)
C2_RailsBeforeZ ==
    (InThetaMovement /\ f.z_var <= f.z_now) =>
        \A i \in SubIdx :
            (calls[i][1] = "z" /\ IsMoveCmd(calls[i])) =>
                /\ \E j \in SubIdx, k \in SubIdx :
                       /\ j < k /\ k < i
                       /\ calls[j] = <<"x1", "mv", f.x1_var>>
                       /\ calls[k] = <<"x1", "wait", 0>>
                /\ \E j \in SubIdx, k \in SubIdx :
                       /\ j < k /\ k < i
                       /\ calls[j] = <<"x2", "mv", f.x2_var>>
                       /\ calls[k] = <<"x2", "wait", 0>>

C2_Witness ==
    /\ InThetaMovement /\ f.z_var = f.z_now /\ f.nint = 0
    /\ pc = "L220"
    /\ \E i \in SubIdx : calls[i] = <<"z", "mv", f.z_var>>

(* the sub-move targets C3 expects for a request: both halves of a change  *)
(* above 28 degrees, else the request alone                                *)
IsMidpoint(m, theta, theta_now) == Abs(2 * m - (theta + theta_now)) <= 1

ExpectedSubs(subs, theta, theta_now) ==
    IF Abs(theta - theta_now) > 28000
    THEN /\ Len(subs) <= 2
         /\ Len(subs) >= 1 => IsMidpoint(subs[1], theta, theta_now)
         /\ Len(subs) = 2 => subs[2] = theta
    ELSE subs = <<theta>>

(* C3: moveTheta makes two sub-moves, to the midpoint and then to theta,   *)
(* exactly when |theta - theta_now| > 28 degrees, and one sub-move to      *)
(* theta otherwise; a call that returns has made all of them; when the     *)
(* second sub-move starts, x1, x2 and z have settled.                      *)
C3_SplitAbove28 ==
    InThetaMovement =>
        /\ ExpectedSubs(f.subs, f.arg, f.theta_now)
        /\ (pc = "idle" /\ raised = "none") =>
               Len(f.subs) = IF Abs(f.arg - f.theta_now) > 28000 THEN 2 ELSE 1
        /\ (Len(f.subs) = 2 /\ Len(calls) = f.base) =>
               (~moving["x1"] /\ ~moving["x2"] /\ ~moving["z"])

C3_Witness ==
    /\ f.op = "moveTheta" /\ pc = "idle" /\ raised = "none" /\ f.nint = 0
    /\ Abs(f.arg - f.theta_now) > 28000
    /\ Len(f.subs) = 2
    /\ \E i \in SubIdx : calls[i] = <<"x1", "mv", ThetaToMotors(f.arg, 0)[1]>>

(* C4 (as claimed): when the requested change is above 28 degrees, each    *)
(* sub-move starts within 28 degrees of its target.                        *)
C4_SubMoveAtMost28 ==
    (pc = "L194" /\ f.op = "moveTheta" /\ Abs(f.arg - f.theta_now) > 28000) =>
        (ThetaPosition = NaN \/ Abs(f.tm_theta - ThetaPosition) <= 28000)

(* C5 (as claimed): a sequenced operation that was interrupted after it    *)
(* had commanded an axis ends with stop called on all five axes and        *)
(* without raising.                                                        *)
C5_InterruptStopsAll ==
    (pc = "idle" /\ f.op \in SeqOps /\ f.nint > 0
       /\ \E i \in 1..Len(calls) : IsMoveCmd(calls[i])) =>
        (raised = "none" /\ \A a \in Axes : Stopped(a))

LimitsSet == f.low # None /\ f.hi # None

Issued(c) == \E i \in 1..Len(calls) : calls[i] = c

(* C6: moveX(x) with both limits set and x below lowlimX or above hilimX,  *)
(* not interrupted, makes no axis call at all and returns without raising. *)
C6_OutsideLimitsNoCalls ==
    (f.op = "moveX" /\ LimitsSet /\ f.nint = 0
       /\ (f.arg < f.low \/ f.arg > f.hi)) =>
        /\ calls = <<>>
        /\ raised = "none"
        /\ pc \in {"L330", "idle"}

C6_Witness ==
    /\ f.op = "moveX" /\ LimitsSet /\ f.nint = 0 /\ f.arg > f.hi
    /\ pc = "idle" /\ raised = "none" /\ calls = <<>>

(* C7 (as claimed): an accepted, uninterrupted moveX(x) that has returned  *)
(* has commanded x1 and x2 to x/sin(alpha_r) and z to x/tan(alpha_r).      *)
C7_AcceptedMovesAll ==
    (f.op = "moveX" /\ pc = "idle" /\ raised = "none" /\ f.nint = 0
       /\ LimitsSet /\ f.low < f.arg /\ f.arg < f.hi) =>
        /\ Issued(<<"x1", "mv", MulDiv(f.arg, S, sin_alpha_r)>>)
        /\ Issued(<<"x2", "mv", MulDiv(f.arg, S, sin_alpha_r)>>)
        /\ Issued(<<"z", "mv", MulDiv(f.arg, S, tan_alpha_r)>>)

(* C8: whatever the cached limits are, unset included, an uninterrupted    *)
(* tweakH(dx) never raises and, once returned, has issued relative moves   *)
(* to x1 and x2 by dx/sin(alpha_r) and a relative move to z.               *)
C8_TweakNotLimited ==
    (f.op = "tweakH" /\ f.nint = 0) =>
        /\ raised = "none"
        /\ pc = "idle" =>
              /\ Issued(<<"x1", "mvr", MulDiv(f.arg, S, sin_alpha_r)>>)
              /\ Issued(<<"x2", "mvr", MulDiv(f.arg, S, sin_alpha_r)>>)
              /\ \E i \in 1..Len(calls) :
                     calls[i][1] = "z" /\ calls[i][2] = "mvr"

C8_Witness ==
    /\ f.op = "tweakH" /\ f.nint = 0 /\ pc = "idle"
    /\ LimitsSet /\ f.arg > f.hi
    /\ Issued(<<"x1", "mvr", MulDiv(f.arg, S, sin_alpha_r)>>)

(* C9: wmTheta with samz_offset <= 0 returns theta1 when                   *)
(* |theta1 - theta2| < 0.01 degrees and np.nan otherwise, nothing else.    *)
C9_ThetaOrNaN ==
    (f.op = "wmTheta" /\ f.off <= 0) =>
        LET theta1 == x1ToTheta(f.x1_var, f.off)
            theta2 == x2ToTheta(f.x2_var, f.off)
        IN  /\ result.kind = "float"
            /\ result.val = IF Abs(theta1 - theta2) < 10
                            THEN <<theta1>> ELSE <<NaN>>

C9_Witness ==
    /\ f.op = "wmTheta" /\ f.off = 0
    /\ Abs(x1ToTheta(f.x1_var, 0) - x2ToTheta(f.x2_var, 0)) = 10
    /\ result.val = <<NaN>>

(* C10: wmX returns x1*sin(alpha_r) when the x projections of x1 and x2    *)
(* differ by at most deadband(x1) + deadband(x2) and z differs from        *)
(* x1*sin(alpha_r)/tan(alpha_r) by less than 2*deadband(z); in every other *)
(* case it returns np.nan.                                                 *)
C10_XOrNaN ==
    f.op = "wmX" =>
        LET x_x1 == MulDiv(f.x1_var, sin_alpha_r, S)
            x_x2 == MulDiv(f.x2_var, sin_alpha_r, S)
            z_theo == MulDiv(x_x1, S, tan_alpha_r)
        IN  result.val =
                IF /\ Abs(x_x1 - x_x2) <= rdbd["x1"] + rdbd["x2"]
                   /\ Abs(f.z_var - z_theo) < 2 * rdbd["z"]
                THEN <<x_x1>> ELSE <<NaN>>

C10_Witness ==
    /\ f.op = "wmX"
    /\ Abs(MulDiv(f.x1_var, sin_alpha_r, S) - MulDiv(f.x2_var, sin_alpha_r, S))
           = rdbd["x1"] + rdbd["x2"]
    /\ result.val # <<NaN>>

(* C11 (as claimed): for an energy inside the arcsin domain,               *)
(* forward(energy) completes without error and returns the real position   *)
(* whose th1 is energyToSi111BraggAngle(energy); inverse(real position)    *)
(* completes without error and returns the pseudo position whose energy is *)
(* thetaToSi111energy(th1).                                                *)
C11_ForwardInverseTranslate ==
    /\ (f.op = "forward" /\ ~ArgOutside(f.arg)) =>
           /\ raised = "none"
           /\ result = [kind |-> "RealPosition",
                        val |-> <<energyToSi111BraggAngle(f.arg)>>]
    /\ f.op = "inverse" =>
           /\ raised = "none"
           /\ result = [kind |-> "PseudoPosition",
                        val |-> <<thetaToSi111energy(f.arg)>>]

(* C12 (as claimed): energyToSi111BraggAngle(energy) with                  *)
(* 12398.419/energy/(2*dspacing) outside [-1, 1] raises and returns no     *)
(* value.                                                                  *)
C12_DomainErrorRaised ==
    (f.op = "energyToSi111BraggAngle" /\ ArgOutside(f.arg)) =>
        (raised # "none" /\ result = NoResult)

(* C13: ThetaToMotors(0, samz_offset) returns exactly (0, 0, 0), whatever  *)
(* the sample offset: dz is the forced 0, not the result of 0/0.           *)
C13_ZeroThetaZeroRails ==
    (f.op = "ThetaToMotors" /\ f.arg = 0) =>
        (raised = "none" /\ result = [kind |-> "tuple", val |-> <<0, 0, 0>>])

C13_Witness ==
    /\ f.op = "ThetaToMotors" /\ f.arg = 0 /\ f.off # 0
    /\ result.val = <<0, 0, 0>>

RoundTripThetas == {5000, 10000, 27000, 45000}

(* C15: for theta of 5, 10, 27 and 45 degrees, with the rails standing at  *)
(* the (x1, x2) of ThetaToMotors(theta), wmTheta with no sample offset     *)
(* returns a defined angle within 0.01 degrees of theta, and x1ToTheta and *)
(* x2ToTheta each give theta within 0.01 degrees.                          *)
C15_RailsRoundTrip ==
    \A t \in RoundTripThetas :
        LET m == ThetaToMotors(t, 0)
        IN  (f.op = "wmTheta" /\ f.off = 0
               /\ f.x1_var = m[1] /\ f.x2_var = m[2]) =>
                /\ result.kind = "float"
                /\ result.val[1] # NaN
                /\ Abs(result.val[1] - t) <= 10
                /\ Abs(x1ToTheta(m[1], 0) - t) <= 10
                /\ Abs(x2ToTheta(m[2], 0) - t) <= 10

C15_Witness ==
    /\ f.op = "wmTheta" /\ f.off = 0
    /\ f.x1_var = ThetaToMotors(45000, 0)[1]
    /\ f.x2_var = ThetaToMotors(45000, 0)[2]
    /\ result.val[1] # NaN
    /\ Abs(result.val[1] - 45000) <= 10

ReportOps == {"status", "ThetaToMotors_print", "ca_theta"}

(* C16: a step that is a call of status, ThetaToMotors_print or ca_theta   *)
(* issues no mv, mvr, set or stop to any axis, leaves every axis's         *)
(* position, setpoint and motion as they were, and leaves the cached soft  *)
(* limits unchanged.                                                       *)
C16_ReportsHaveNoEffect ==
    [][(nops' = nops + 1 /\ f'.op \in ReportOps) =>
          /\ pos' = pos /\ tgt' = tgt /\ moving' = moving
          /\ lowlimX' = lowlimX /\ hilimX' = hilimX
          /\ \A i \in 1..Len(calls') :
                 calls'[i][2] \notin {"mv", "mvr", "set", "stop"}]_vars

C16_Witness ==
    /\ f.op = "ThetaToMotors_print" /\ pc = "idle"
    /\ lowlimX # None /\ hilimX # None
    /\ f.x1_var # 0
    /\ calls = <<>> /\ tgt = pos

IsZMove(c) == c[1] = "z" /\ c[2] \in {"mv", "mvr"}

(* C17: in moveX and tweakH, interrupted or not: when z goes first         *)
(* (z_var > z_now) every move command to x1 or x2 comes after the z move   *)
(* and the return of z.wait(); when the rails go first every move command  *)
(* to z comes after the rail moves and the returns of x1.wait() and        *)
(* x2.wait().                                                              *)
C17_SecondGroupAfterWait ==
    (f.op \in {"moveX", "tweakH"}) =>
        IF f.z_var > f.z_now
        THEN \A i \in 1..Len(calls) :
                 IsRailMove(calls[i]) =>
                     \E j \in 1..Len(calls), k \in 1..Len(calls) :
                         /\ j < k /\ k < i
                         /\ IsZMove(calls[j])
                         /\ calls[k] = <<"z", "wait", 0>>
        ELSE \A i \in 1..Len(calls) :
                 IsZMove(calls[i]) =>
                     /\ \E j \in 1..Len(calls), k \in 1..Len(calls) :
                            /\ j < k /\ k < i
                            /\ IsRailMove(calls[j]) /\ calls[j][1] = "x1"
                            /\ calls[k] = <<"x1", "wait", 0>>
                     /\ \E j \in 1..Len(calls), k \in 1..Len(calls) :
                            /\ j < k /\ k < i
                            /\ IsRailMove(calls[j]) /\ calls[j][1] = "x2"
                            /\ calls[k] = <<"x2", "wait", 0>>

C17_Witness ==
    /\ f.op = "tweakH" /\ pc = "idle" /\ f.nint = 0
    /\ ~(f.z_var > f.z_now)
    /\ \E i \in 1..Len(calls) : IsZMove(calls[i])

(* C18 (as claimed): an uninterrupted tweakH(dx), whatever the z position, *)
(* has moved x1 and x2 by dx/sin(alpha_r) and z by dx/tan(alpha_r),        *)
(* relative to where they stood.                                           *)
C18_TweakIsRelative ==
    (f.op = "tweakH" /\ pc = "idle" /\ f.nint = 0 /\ raised = "none") =>
        /\ Issued(<<"x1", "mvr", MulDiv(f.arg, S, sin_alpha_r)>>)
        /\ Issued(<<"x2", "mvr", MulDiv(f.arg, S, sin_alpha_r)>>)
        /\ Issued(<<"z", "mvr", MulDiv(f.arg, S, tan_alpha_r)>>)

(* C19 (as claimed): in a moveTheta call, once stop has been issued after  *)
(* a caught interrupt, no mv or mvr is issued to any axis before the call  *)
(* returns, also when the interrupt came during the first of two           *)
(* sub-moves.                                                              *)
C19_NoMoveAfterStop ==
    f.op = "moveTheta" =>
        \A i \in 1..Len(calls), j \in 1..Len(calls) :
            (i < j /\ calls[i][2] = "stop") => ~IsMoveCmd(calls[j])

(* the index of the last mv or mvr to axis a in calls, 0 when there is none *)
LastMove(a) ==
    LET I == {i \in 1..Len(calls) : calls[i][1] = a /\ IsMoveCmd(calls[i])}
    IN  IF I = {} THEN 0 ELSE CHOOSE i \in I : \A j \in I : j <= i

(* axis a was last commanded to v and waited on after that command *)
CommandedAndWaited(a, v) ==
    /\ LastMove(a) > 0
    /\ calls[LastMove(a)] = <<a, "mv", v>>
    /\ \E k \in 1..Len(calls) : k > LastMove(a) /\ calls[k] = <<a, "wait", 0>>

(* C20: with no interrupt and every commanded axis settling, every         *)
(* moveTheta call returns; and when its sequencing has returned (line 275) *)
(* each of x1, x2 and z was last commanded to its ThetaToMotors target for *)
(* the requested theta and has been waited on after that command.          *)
C20_TerminatesAllWaited ==
    /\ (pc # "idle") ~> (pc = "idle")
    /\ [](pc = "L275" =>
            LET m == ThetaToMotors(f.arg, f.off)
            IN  /\ CommandedAndWaited("x1", m[1])
                /\ CommandedAndWaited("x2", m[2])
                /\ CommandedAndWaited("z", m[3]))

C20_Witness ==
    /\ pc = "L275" /\ Len(f.subs) = 2
    /\ ~ZFirst(f.z_now, f.z_var)
    /\ CommandedAndWaited("z", ThetaToMotors(f.arg, f.off)[3])

(* C21: when moveTheta reads an undefined (nan) theta, the statement that  *)
(* follows the reading returns the diagnostic message, without raising,    *)
(* and the call has issued no command to any axis.                         *)
C21_NanReadbackNoMove ==
    [][(pc = "L249" /\ pc' # pc /\ nint' = nint /\ ThetaPosition = NaN) =>
          /\ pc' = "idle"
          /\ raised' = "none"
          /\ result'.kind = "message"
          /\ calls' = <<>>]_vars

C21_Witness ==
    /\ f.op = "moveTheta" /\ pc = "idle" /\ f.theta_now = NaN
    /\ result.kind = "message"
    /\ calls = <<>>
    /\ x1ToTheta(pos["x1"], 0) # x2ToTheta(pos["x2"], 0)

(* C22 (as claimed): the (x1, x2, dz) that ThetaToMotors(theta,            *)
(* samz_offset) gives moveTheta to command are the (x1, x2, dz) of the row *)
(* ca_theta(theta, samz_offset) prints, for every theta and every offset.  *)
C22_TargetsMatchTable ==
    f.op = "ThetaToMotors" =>
        LET row == CaTheta(f.arg, f.off)
        IN  result.val = <<row[2], row[3], row[4]>>

(* C23 (as claimed): for every energy within the declared limits of the    *)
(* energy axis, 4 to 25, the arcsin argument of energyToSi111BraggAngle    *)
(* lies in [-1, 1] and the Bragg angle returned is defined.                *)
C23_DeclaredRangeInDomain ==
    (f.op = "energyToSi111BraggAngle"
       /\ energy_limits[1] <= f.arg /\ f.arg <= energy_limits[2]) =>
        (~ArgOutside(f.arg) /\ result.val # <<NaN>>)

(* C24 (as claimed): an uninterrupted moveX(x) with both limits set and    *)
(* lowlimX <= x <= hilimX, the two ends included, is accepted: it issues   *)
(* move commands to the axes.                                              *)
C24_ClosedWindowAccepted ==
    (f.op = "moveX" /\ pc = "idle" /\ raised = "none" /\ f.nint = 0
       /\ LimitsSet /\ f.low <= f.arg /\ f.arg <= f.hi) =>
        \E i \in 1..Len(calls) : IsMoveCmd(calls[i])

====
